---------------------------- MODULE Spec2Model ----------------------------
(***************************************************************************)
(* Model of the SSF delivery service (services/ds): the relational tables  *)
(* of db.rs, the object store of storage.rs and the request handlers of    *)
(* server.rs.  One action per request handler; a handler that is a single  *)
(* database transaction is one atomic step, a handler whose statements can *)
(* interleave with another request's (consume_key_package, the writes to   *)
(* the object store) is split where the interleaving is observable.        *)
(***************************************************************************)
EXTENDS Integers, Sequences, FiniteSets, TLC

\* ------------------------------------------------------------------ bounds
MaxFolderId == 1
MaxMessageId == 3
MaxKeyPackageId == 2
MaxETag == 4

Users == {"a", "b", "c"}
\* The users registered (POST /users) before the first folder request.
Registered == {"a", "b"}
\* The SAN rfc822 name sets of the client certificates that pass the
\* CertificateWithEmails guard (at least one email).
Certificates == (SUBSET Users) \ {{}}
\* The order in which the datastore lists user rows (primary-key order).
UserSeq == <<"a", "b", "c">>
Payloads == {"p1", "p2"}
InitialMetadata == {"m0"}
FileIds == {"f1", "metadata"}
Blobs == {"k1", "k2"}
Procs == {"t1", "t2"}
FolderIds == 1..MaxFolderId
MessageIds == 1..MaxMessageId
KeyPackageIds == 1..MaxKeyPackageId
ETags == 1..MaxETag
Metadatas == {"m1", "m2"}
FileBytes == {"d1", "d2"}

VARIABLES
    users,                  \* table users(user_email)
    folders,                \* table folders(folder_id)
    folders_users,          \* table folders_users(folder_id, user_email)
    next_folder_id,         \* AUTO_INCREMENT of folders
    pending_group_messages, \* table pending_group_messages
    next_message_id,        \* AUTO_INCREMENT of pending_group_messages
    application_messages,   \* table application_messages(message_id, payload)
    publish,                \* per in-flight publish_proposal call: its position and locals
    key_packages,           \* table key_packages
    next_key_package_id,    \* AUTO_INCREMENT of key_packages
    store,                  \* the object store: path -> [bytes, e_tag]
    next_e_tag,             \* generation counter of the object store
    accepted,               \* history: <<folder_id, parent e_tag>> of every accepted metadata put
    uploaded,               \* history: path -> [file, e_tag] of the last upload_file answered 201
    upload,                 \* per in-flight upload_file / post_metadata call: its position and locals
    consume,                \* per in-flight consume_key_package call: its position and locals
    returned,               \* history: key_package_id -> number of consume calls that returned it
    last_read,              \* history: last message_id get_first returned, per (folder, user)
    acked,                  \* history: a 200 ack happened since that read, per (folder, user)
    sse_sent,               \* notifications the last handler sent
    resp                    \* the last handler's request and response

dbVars == <<users, folders, folders_users, next_folder_id>>
mqVars == <<pending_group_messages, next_message_id, application_messages, publish>>
kpVars == <<key_packages, next_key_package_id, consume, returned>>
storeVars == <<store, next_e_tag, accepted, uploaded, upload>>
fifoVars == <<last_read, acked>>
vars == <<users, folders, folders_users, next_folder_id, pending_group_messages,
          next_message_id, application_messages, publish, key_packages,
          next_key_package_id, store, next_e_tag, accepted, uploaded, upload, consume, returned, last_read, acked,
          sse_sent, resp>>

\* ------------------------------------------------------------ responses
NoResp ==
    [op |-> "none", user |-> "", folder_id |-> 0, status |-> 0, email |-> "",
     payload |-> "", message_id |-> 0, message_ids |-> <<>>,
     ids |-> {}, application_payload |-> "", file_id |-> "", e_tag |-> 0,
     parent |-> 0, key_package_id |-> 0, file |-> "", metadata |-> "",
     parent_version |-> 0, certificate |-> {}]

Resp(op, user, folder_id, status) ==
    [NoResp EXCEPT !.op = op, !.user = user, !.folder_id = folder_id, !.status = status]

Notification(folder_id, receiver) == [folder_id |-> folder_id, receiver |-> receiver]

Range(s) == {s[i] : i \in 1..Len(s)}


\* ------------------------------------------------------------ object store
\* Option::None of parent_etag / parent_version / e_tag.
NoETag == 0

MetadataFileName == "metadata"

\* Mutant: no reserved file name.
is_metadata_file_name_never(name) == FALSE

is_metadata_file_name(name) == name = MetadataFileName

get_location_for_file(folder_id, file_id) == <<folder_id, file_id>>

get_location_for_metadata_file(folder_id) == get_location_for_file(folder_id, MetadataFileName)

Exists(st, path) == path \in DOMAIN st

Put(st, path, bytes, tag) ==
    [p \in DOMAIN st \cup {path} |->
        IF p = path THEN [bytes |-> bytes, e_tag |-> tag] ELSE st[p]]

\* Mutant: PutMode::Update overwrites without comparing the e_tag.
put_opts_overwrite(st, tag, path, bytes, mode, parent_etag) ==
    [err |-> "", store |-> Put(st, path, bytes, tag), e_tag |-> tag]

\* ObjectStore::put_opts as storage::write calls it: PutMode::Create fails with
\* AlreadyExists when the object exists; PutMode::Update(version) needs an e_tag
\* and fails with Precondition unless it is the object's current e_tag.
put_opts(st, tag, path, bytes, mode, parent_etag) ==
    IF mode = "Create"
    THEN IF Exists(st, path)
         THEN [err |-> "AlreadyExists", store |-> st, e_tag |-> NoETag]
         ELSE [err |-> "", store |-> Put(st, path, bytes, tag), e_tag |-> tag]
    ELSE IF parent_etag = NoETag
         THEN [err |-> "Generic", store |-> st, e_tag |-> NoETag]
         ELSE IF Exists(st, path) /\ st[path].e_tag = parent_etag
              THEN [err |-> "", store |-> Put(st, path, bytes, tag), e_tag |-> tag]
              ELSE [err |-> "Precondition", store |-> st, e_tag |-> NoETag]

\* WriteInput of storage.rs; file_to_write = NoFile models Option::None.
NoFile == ""

WriteInput(folder_id, file_id, file_to_write, metadata_file, parent_etag, parent_version) ==
    [folder_id |-> folder_id, file_id |-> file_id, file_to_write |-> file_to_write,
     metadata_file |-> metadata_file, parent_etag |-> parent_etag,
     parent_version |-> parent_version]

\* Mutant: the file is put before the conditional put of the metadata object.
write_file_first(st, tag, write_input, file_ok) ==
    LET mode == IF write_input.parent_etag # NoETag \/ write_input.parent_version # NoETag
                THEN "Update" ELSE "Create"
        file_store == IF write_input.file_to_write = NoFile
                      THEN st
                      ELSE Put(st, get_location_for_file(write_input.folder_id,
                                                         write_input.file_id),
                               write_input.file_to_write, tag)
        put_result == put_opts(file_store, tag + 1,
                               get_location_for_metadata_file(write_input.folder_id),
                               write_input.metadata_file, mode, write_input.parent_etag)
    IN  [err |-> put_result.err, store |-> put_result.store, e_tag |-> put_result.e_tag,
         next |-> tag + 2]

\* Mutant: an upload answers the token of the file object it put.
write_returns_file_token(st, tag, write_input, file_ok) ==
    LET mode == IF write_input.parent_etag # NoETag \/ write_input.parent_version # NoETag
                THEN "Update" ELSE "Create"
        put_result == put_opts(st, tag,
                               get_location_for_metadata_file(write_input.folder_id),
                               write_input.metadata_file, mode, write_input.parent_etag)
    IN  IF put_result.err # ""
        THEN [err |-> put_result.err, store |-> st, e_tag |-> NoETag, next |-> tag]
        ELSE IF write_input.file_to_write = NoFile
             THEN [err |-> "", store |-> put_result.store,
                   e_tag |-> put_result.e_tag, next |-> tag + 1]
             ELSE [err |-> "",
                   store |-> Put(put_result.store,
                                 get_location_for_file(write_input.folder_id,
                                                       write_input.file_id),
                                 write_input.file_to_write, tag + 1),
                   e_tag |-> tag + 1, next |-> tag + 2]

\* storage::write: the conditional put of the metadata object, then (only when it
\* succeeded) the unconditional put of the file.  file_ok is the outcome of the
\* second round trip to the object store.
write(st, tag, write_input, file_ok) ==
    LET mode == IF write_input.parent_etag # NoETag \/ write_input.parent_version # NoETag
                THEN "Update" ELSE "Create"
        put_result == put_opts(st, tag,
                               get_location_for_metadata_file(write_input.folder_id),
                               write_input.metadata_file, mode, write_input.parent_etag)
    IN  IF put_result.err # ""
        THEN [err |-> put_result.err, store |-> st, e_tag |-> NoETag, next |-> tag]
        ELSE IF write_input.file_to_write = NoFile
             THEN [err |-> "", store |-> put_result.store,
                   e_tag |-> put_result.e_tag, next |-> tag + 1]
             ELSE IF file_ok
                  THEN [err |-> "",
                        store |-> Put(put_result.store,
                                      get_location_for_file(write_input.folder_id,
                                                            write_input.file_id),
                                      write_input.file_to_write, tag + 1),
                        e_tag |-> put_result.e_tag, next |-> tag + 2]
                  ELSE [err |-> "Generic", store |-> put_result.store,
                        e_tag |-> NoETag, next |-> tag + 1]

init_metadata(st, tag, folder_id, metadata_file) ==
    write(st, tag, WriteInput(folder_id, "", NoFile, metadata_file, NoETag, NoETag), TRUE)

\* ------------------------------------------------------------ tables
\* Mutant: the SELECT without the JOIN on folders_users.
get_folder_by_id_any_user(email, folder_id) ==
    folder_id \in folders

get_folder_by_id(email, folder_id) ==
    folder_id \in folders /\ <<folder_id, email>> \in folders_users

list_users_for_folder_transaction(user_emails, folder_id) ==
    {u \in user_emails :
        folder_id \in folders /\ <<folder_id, u>> \in folders_users /\ u \in users}

\* Mutant: counts the registered users instead of the folder's memberships.
count_users_for_folder_all_users(fu, folder_id) ==
    Cardinality(users)

count_users_for_folder(fu, folder_id) ==
    Cardinality({r \in fu : r[1] = folder_id})

list_users_by_folder(fu, folder_id) ==
    SelectSeq(UserSeq, LAMBDA u : <<folder_id, u>> \in fu)

Queue(pend, folder_id, user_email) ==
    {m \in pend : m.user_email = user_email /\ m.folder_id = folder_id}

\* Mutant: counts the messages the user created instead of those it is to receive.
count_pending_messages_by_creator(pend, folder_id, user_email) ==
    Cardinality({m \in pend : m.creator = user_email /\ m.folder_id = folder_id})

count_pending_messages_for_folder_and_user(pend, folder_id, user_email) ==
    Cardinality(Queue(pend, folder_id, user_email))

MinId(rows) == CHOOSE i \in {m.message_id : m \in rows} :
                   \A m \in rows : i <= m.message_id

\* Mutant: ORDER BY message_id DESC.
First_desc(pend, folder_id, user_email) ==
    CHOOSE m \in Queue(pend, folder_id, user_email) :
        \A n \in Queue(pend, folder_id, user_email) : n.message_id <= m.message_id

First(pend, folder_id, user_email) ==
    CHOOSE m \in Queue(pend, folder_id, user_email) :
        m.message_id = MinId(Queue(pend, folder_id, user_email))

\* application_messages.message_id references pending_group_messages.message_id
\* and follows its deletion.
Cascade(app, rows) ==
    {x \in app : x.message_id \notin {m.message_id : m \in rows}}


\* ------------------------------------------------------------ message queue
\* Mutant: the sender receives its own message too.
is_recipient_everyone(user, sender_email) == TRUE

is_recipient(user, sender_email) == user # sender_email

\* Mutant: the batch is inserted whatever the sender's pending count is.
insert_message_transaction_unchecked(sender_email, folder_id, payload, fu, pend, nid) ==
    LET users_ == list_users_by_folder(fu, folder_id)
        rcpts == SelectSeq(users_, LAMBDA user : is_recipient(user, sender_email))
        message_ids == [i \in 1..Len(rcpts) |-> nid + i - 1]
        rows == {[message_id |-> message_ids[i], folder_id |-> folder_id,
                  user_email |-> rcpts[i], payload |-> payload,
                  creator |-> sender_email] : i \in 1..Len(rcpts)}
    IN  [ok |-> TRUE, users |-> users_, message_ids |-> message_ids,
         pending |-> pend \cup rows, next |-> nid + Len(rcpts), count |-> 0]

\* db::insert_message_transaction on the transaction's view (fu, pend, nid) of
\* folders_users, pending_group_messages and its AUTO_INCREMENT.
insert_message_transaction(sender_email, folder_id, payload, fu, pend, nid) ==
    LET pending_msgs == count_pending_messages_for_folder_and_user(pend, folder_id, sender_email)
        users_ == list_users_by_folder(fu, folder_id)
        rcpts == SelectSeq(users_, LAMBDA user : is_recipient(user, sender_email))
        message_ids == [i \in 1..Len(rcpts) |-> nid + i - 1]
        rows == {[message_id |-> message_ids[i], folder_id |-> folder_id,
                  user_email |-> rcpts[i], payload |-> payload,
                  creator |-> sender_email] : i \in 1..Len(rcpts)}
    IN  IF pending_msgs = 0
        THEN [ok |-> TRUE, users |-> users_, message_ids |-> message_ids,
              pending |-> pend \cup rows, next |-> nid + Len(rcpts), count |-> 0]
        ELSE [ok |-> FALSE, users |-> <<>>, message_ids |-> <<>>,
              pending |-> pend, next |-> nid, count |-> pending_msgs]

\* POST /folders/<folder_id>/proposals: db::insert_message, then the notifications.
try_publish_proposal(email, folder_id, proposal) ==
    LET r == insert_message_transaction(email, folder_id, proposal, folders_users,
                                        pending_group_messages, next_message_id)
    IN  /\ r.next - 1 <= MaxMessageId
        /\ pending_group_messages' = r.pending
        /\ next_message_id' = r.next
        /\ IF r.ok
           THEN /\ sse_sent' = {Notification(folder_id, e) : e \in Range(r.users)}
                /\ resp' = [Resp("publish_proposal", email, folder_id, 200)
                               EXCEPT !.payload = proposal,
                                      !.message_ids = r.message_ids]
           ELSE /\ sse_sent' = {Notification(folder_id, email)}
                /\ resp' = [Resp("publish_proposal", email, folder_id, 409)
                               EXCEPT !.payload = proposal]
        /\ UNCHANGED <<dbVars, application_messages, publish, kpVars, storeVars, fifoVars>>

\* The same handler step by step, as it runs next to other requests: its
\* transaction reads a snapshot (folders_users and pending_group_messages as of
\* its first SELECT), its INSERTs become visible at the commit, and the
\* notifications follow the return of db::insert_message.
NoPublish ==
    [pc |-> "idle", sender |-> "", folder_id |-> 0, payload |-> "",
     fu |-> {}, pend |-> {}, ok |-> FALSE, users |-> <<>>, message_ids |-> <<>>]

\* Mutant: the notification carries no folder_id.
send_see_without_folder_id(folder_id, emails) ==
    {Notification(0, e) : e \in emails}

\* send_see for every email of a list
send_see(folder_id, emails) ==
    {Notification(folder_id, e) : e \in emails}

\* try_publish_proposal up to the COUNT of insert_message_transaction: a sender
\* with pending messages is answered 409 here, after the notification to itself.
try_publish_proposal_begin(p, email, folder_id, proposal) ==
    LET r == insert_message_transaction(email, folder_id, proposal, folders_users,
                                        pending_group_messages, next_message_id)
    IN  /\ publish[p].pc = "idle"
        /\ IF r.ok
           THEN /\ publish' = [publish EXCEPT ![p] =
                                  [NoPublish EXCEPT !.pc = "insert", !.sender = email,
                                                    !.folder_id = folder_id,
                                                    !.payload = proposal,
                                                    !.fu = folders_users,
                                                    !.pend = pending_group_messages]]
                /\ sse_sent' = {}
                /\ resp' = NoResp
           ELSE /\ UNCHANGED publish
                /\ sse_sent' = send_see(folder_id, {email})
                /\ resp' = [Resp("publish_proposal", email, folder_id, 409)
                               EXCEPT !.payload = proposal]
        /\ UNCHANGED <<dbVars, pending_group_messages, next_message_id,
                       application_messages, kpVars, storeVars, fifoVars>>

\* The INSERTs of insert_message_transaction and the commit of insert_message.
\* fail_at = 0: every INSERT succeeds; fail_at = i: the i-th INSERT returns an
\* error, which ends the loop.  insert_message commits in both cases; tx_alive
\* tells whether that commit succeeds (the error left the transaction open) or
\* fails (the connection or the whole transaction was lost).
try_publish_proposal_commit(p, fail_at, tx_alive) ==
    LET r == insert_message_transaction(publish[p].sender, publish[p].folder_id,
                                        publish[p].payload, publish[p].fu,
                                        publish[p].pend, next_message_id)
        executed == {m \in r.pending \ publish[p].pend :
                        fail_at = 0 \/ m.message_id < next_message_id + fail_at - 1}
    IN  /\ publish[p].pc = "insert"
        /\ fail_at <= Len(r.message_ids)
        /\ r.next - 1 <= MaxMessageId
        /\ pending_group_messages' =
               IF tx_alive THEN pending_group_messages \cup executed
               ELSE pending_group_messages
        /\ next_message_id' = next_message_id + Cardinality(executed)
        /\ publish' = [publish EXCEPT ![p] =
                          [@ EXCEPT !.pc = "respond",
                                    !.ok = (fail_at = 0 /\ tx_alive),
                                    !.users = r.users,
                                    !.message_ids = IF fail_at = 0 /\ tx_alive
                                                    THEN r.message_ids ELSE <<>>]]
        /\ sse_sent' = {}
        /\ resp' = NoResp
        /\ UNCHANGED <<dbVars, application_messages, kpVars, storeVars, fifoVars>>

\* try_publish_proposal after db::insert_message returned: the notifications
\* and 200, or 500 for a database error.
try_publish_proposal_respond(p) ==
    /\ publish[p].pc = "respond"
    /\ IF publish[p].ok
       THEN /\ sse_sent' = send_see(publish[p].folder_id, Range(publish[p].users))
            /\ resp' = [Resp("publish_proposal", publish[p].sender, publish[p].folder_id, 200)
                           EXCEPT !.payload = publish[p].payload,
                                  !.message_ids = publish[p].message_ids]
       ELSE /\ sse_sent' = {}
            /\ resp' = [Resp("publish_proposal", publish[p].sender, publish[p].folder_id, 500)
                           EXCEPT !.payload = publish[p].payload]
    /\ publish' = [publish EXCEPT ![p] = NoPublish]
    /\ UNCHANGED <<dbVars, pending_group_messages, next_message_id,
                   application_messages, kpVars, storeVars, fifoVars>>

\* db::insert_application_message: the SELECT (filtered on user_email) only feeds
\* the returned receivers; the INSERT takes every message_id of the request.  The
\* INSERT fails as a whole on an empty id list (malformed statement), on a
\* message_id that already has a row, or on one that has no pending row.
insert_application_message(message_ids, sender_email, folder_id, payload, pend, app) ==
    LET pending_messages == {m \in pend : /\ m.folder_id = folder_id
                                          /\ m.user_email = sender_email
                                          /\ m.message_id \in message_ids}
        insert_ok == /\ message_ids # {}
                     /\ \A i \in message_ids : \A x \in app : x.message_id # i
                     /\ \A i \in message_ids : \E m \in pend : m.message_id = i
    IN  IF insert_ok
        THEN [err |-> "", users_with_changes |-> {m.user_email : m \in pending_messages},
              app |-> app \cup {[message_id |-> i, payload |-> payload] : i \in message_ids}]
        ELSE [err |-> "Database", users_with_changes |-> {}, app |-> app]

\* PATCH /folders/<folder_id>/proposals
try_publish_application_msg(email, folder_id, message_ids, payload) ==
    LET r == insert_application_message(message_ids, email, folder_id, payload,
                                        pending_group_messages, application_messages)
    IN  /\ application_messages' = r.app
        /\ sse_sent' = {Notification(folder_id, e) : e \in r.users_with_changes}
        /\ resp' = [Resp("publish_application_msg", email, folder_id,
                         IF r.err = "" THEN 201 ELSE 500)
                       EXCEPT !.ids = message_ids]
        /\ UNCHANGED <<dbVars, pending_group_messages, next_message_id, publish, kpVars,
                       storeVars, fifoVars>>

\* db::get_first_message_by_folder_and_user: "RowNotFound" (empty queue), "None"
\* (the head has no application message) or the head with its application payload.
get_first_message_by_folder_and_user(folder_id, user_email, pend, app) ==
    IF Queue(pend, folder_id, user_email) = {}
    THEN [kind |-> "RowNotFound", message_id |-> 0, payload |-> "",
          application_payload |-> ""]
    ELSE LET pending == First(pend, folder_id, user_email)
         IN  IF \E x \in app : x.message_id = pending.message_id
             THEN [kind |-> "Some", message_id |-> pending.message_id,
                   payload |-> pending.payload,
                   application_payload |->
                       (CHOOSE x \in app : x.message_id = pending.message_id).payload]
             ELSE [kind |-> "None", message_id |-> 0, payload |-> "",
                   application_payload |-> ""]

\* GET /folders/<folder_id>/proposals: the response, without the bookkeeping.
get_pending_proposal_resp(email, folder_id) ==
    LET r == get_first_message_by_folder_and_user(folder_id, email,
                 pending_group_messages, application_messages)
    IN  IF r.kind = "Some"
        THEN [Resp("get_pending_proposal", email, folder_id, 200)
                 EXCEPT !.message_id = r.message_id, !.payload = r.payload,
                        !.application_payload = r.application_payload]
        ELSE IF r.kind = "None"
             THEN Resp("get_pending_proposal", email, folder_id, 429)
             ELSE Resp("get_pending_proposal", email, folder_id, 404)

get_pending_proposal(email, folder_id) ==
    /\ resp' = get_pending_proposal_resp(email, folder_id)
    /\ sse_sent' = {}
    /\ UNCHANGED <<dbVars, mqVars, kpVars, storeVars>>

\* Mutant: the ack is answered without deleting the row.
delete_message_keeps_row(message_id, user_email, folder_id, pend, app) ==
    IF Queue(pend, folder_id, user_email) = {}
    THEN [kind |-> "RowNotFound", pending |-> pend, app |-> app]
    ELSE IF First(pend, folder_id, user_email).message_id < message_id
         THEN [kind |-> "false", pending |-> pend, app |-> app]
         ELSE [kind |-> "true", pending |-> pend, app |-> app]

\* Mutant: the DELETE is filtered on the folder only.
delete_message_whole_folder(message_id, user_email, folder_id, pend, app) ==
    IF Queue(pend, folder_id, user_email) = {}
    THEN [kind |-> "RowNotFound", pending |-> pend, app |-> app]
    ELSE IF First(pend, folder_id, user_email).message_id < message_id
         THEN [kind |-> "false", pending |-> pend, app |-> app]
         ELSE LET rows == {m \in pend : m.folder_id = folder_id}
              IN  [kind |-> "true", pending |-> pend \ rows, app |-> Cascade(app, rows)]

\* Mutant: the comparison of delete_message the other way round.
delete_message_reversed(message_id, user_email, folder_id, pend, app) ==
    IF Queue(pend, folder_id, user_email) = {}
    THEN [kind |-> "RowNotFound", pending |-> pend, app |-> app]
    ELSE IF First(pend, folder_id, user_email).message_id > message_id
         THEN [kind |-> "false", pending |-> pend, app |-> app]
         ELSE LET rows == {m \in Queue(pend, folder_id, user_email) :
                              m.message_id = message_id}
              IN  [kind |-> "true", pending |-> pend \ rows, app |-> Cascade(app, rows)]

\* db::delete_message: "RowNotFound" (empty queue), "false" (older messages are
\* to be acked first) or "true" after the DELETE, whatever it deleted.
delete_message(message_id, user_email, folder_id, pend, app) ==
    IF Queue(pend, folder_id, user_email) = {}
    THEN [kind |-> "RowNotFound", pending |-> pend, app |-> app]
    ELSE IF First(pend, folder_id, user_email).message_id < message_id
         THEN [kind |-> "false", pending |-> pend, app |-> app]
         ELSE LET rows == {m \in Queue(pend, folder_id, user_email) :
                              m.message_id = message_id}
              IN  [kind |-> "true", pending |-> pend \ rows, app |-> Cascade(app, rows)]

\* DELETE /folders/<folder_id>/proposals/<message_id>
ack_message(email, folder_id, message_id) ==
    LET r == delete_message(message_id, email, folder_id,
                            pending_group_messages, application_messages)
    IN  /\ pending_group_messages' = r.pending
        /\ application_messages' = r.app
        /\ resp' = [Resp("ack_message", email, folder_id,
                         IF r.kind = "true" THEN 200
                         ELSE IF r.kind = "false" THEN 400 ELSE 404)
                       EXCEPT !.message_id = message_id]
        /\ sse_sent' = {}
        /\ UNCHANGED <<dbVars, next_message_id, publish, kpVars, storeVars>>


\* ------------------------------------------------------------ folders
\* db::insert_folder_and_relation
insert_folder_and_relation(user_email) ==
    /\ folders' = folders \cup {next_folder_id}
    /\ folders_users' = folders_users \cup {<<next_folder_id, user_email>>}
    /\ next_folder_id' = next_folder_id + 1

\* POST /folders: the folder and its first membership are committed, then the
\* initial metadata object is written (store_ok: the object store answered).
create_folder(email, metadata, store_ok) ==
    LET r == init_metadata(store, next_e_tag, next_folder_id, metadata)
    IN  /\ next_folder_id <= MaxFolderId
        /\ next_e_tag <= MaxETag
        /\ insert_folder_and_relation(email)
        /\ IF store_ok /\ r.err = ""
           THEN /\ store' = r.store
                /\ next_e_tag' = r.next
                /\ accepted' = accepted \cup {<<next_folder_id, NoETag>>}
                /\ resp' = [Resp("create_folder", email, next_folder_id, 201)
                               EXCEPT !.e_tag = r.e_tag, !.metadata = metadata]
           ELSE /\ UNCHANGED <<store, next_e_tag, accepted>>
                /\ resp' = Resp("create_folder", email, next_folder_id, 500)
        /\ sse_sent' = {}
        /\ UNCHANGED <<users, mqVars, kpVars, uploaded, upload, fifoVars>>

\* Mutant: the memberships inserted before the Conflict are committed.
insert_folder_users_relations_commit_on_conflict(folder_id, owner_email, user_emails, has_proposal, proposal) ==
    LET is_owner == list_users_for_folder_transaction(user_emails, folder_id)
        to_add == {user \in user_emails : user \notin is_owner}
        fu == folders_users \cup {<<folder_id, user>> : user \in to_add}
        r == insert_message_transaction(owner_email, folder_id, proposal, fu,
                                        pending_group_messages, next_message_id)
        unchanged == [is_owner |-> {}, message_ids |-> <<>>, fu |-> folders_users,
                      pending |-> pending_group_messages, next |-> next_message_id]
    IN  IF is_owner = {} \/ owner_email \notin is_owner
        THEN [kind |-> "RowNotFound"] @@ unchanged
        ELSE IF ~has_proposal
             THEN [kind |-> "Ok", is_owner |-> is_owner, message_ids |-> <<>>, fu |-> fu,
                   pending |-> pending_group_messages, next |-> next_message_id]
             ELSE IF ~r.ok
                  THEN [kind |-> "Conflict", fu |-> fu] @@ unchanged
                  ELSE [kind |-> "Ok", is_owner |-> is_owner,
                        message_ids |-> r.message_ids, fu |-> fu,
                        pending |-> r.pending, next |-> r.next]

\* Mutant: the folder only has to be shared with one of the given users, who
\* need not be the caller.
insert_folder_users_relations_any_owner(folder_id, owner_email, user_emails, has_proposal, proposal) ==
    LET is_owner == list_users_for_folder_transaction(user_emails, folder_id)
        to_add == {user \in user_emails : user \notin is_owner}
        fu == folders_users \cup {<<folder_id, user>> : user \in to_add}
        r == insert_message_transaction(owner_email, folder_id, proposal, fu,
                                        pending_group_messages, next_message_id)
        unchanged == [is_owner |-> {}, message_ids |-> <<>>, fu |-> folders_users,
                      pending |-> pending_group_messages, next |-> next_message_id]
    IN  IF is_owner = {}
        THEN [kind |-> "RowNotFound"] @@ unchanged
        ELSE IF ~has_proposal
             THEN [kind |-> "Ok", is_owner |-> is_owner, message_ids |-> <<>>, fu |-> fu,
                   pending |-> pending_group_messages, next |-> next_message_id]
             ELSE IF ~r.ok
                  THEN [kind |-> "Conflict"] @@ unchanged
                  ELSE [kind |-> "Ok", is_owner |-> is_owner,
                        message_ids |-> r.message_ids, fu |-> fu,
                        pending |-> r.pending, next |-> r.next]

\* db::insert_folder_users_relations on the committed tables.  has_proposal
\* distinguishes Some(payload) from None.  "RowNotFound" and "Conflict" (the
\* early return Ok((vec![], None))) leave the transaction uncommitted.
insert_folder_users_relations(folder_id, owner_email, user_emails, has_proposal, proposal) ==
    LET is_owner == list_users_for_folder_transaction(user_emails, folder_id)
        to_add == {user \in user_emails : user \notin is_owner}
        fu == folders_users \cup {<<folder_id, user>> : user \in to_add}
        r == insert_message_transaction(owner_email, folder_id, proposal, fu,
                                        pending_group_messages, next_message_id)
        unchanged == [is_owner |-> {}, message_ids |-> <<>>, fu |-> folders_users,
                      pending |-> pending_group_messages, next |-> next_message_id]
    IN  IF is_owner = {} \/ owner_email \notin is_owner
        THEN [kind |-> "RowNotFound"] @@ unchanged
        ELSE IF ~has_proposal
             THEN [kind |-> "Ok", is_owner |-> is_owner, message_ids |-> <<>>, fu |-> fu,
                   pending |-> pending_group_messages, next |-> next_message_id]
             ELSE IF ~r.ok
                  THEN [kind |-> "Conflict"] @@ unchanged
                  ELSE [kind |-> "Ok", is_owner |-> is_owner,
                        message_ids |-> r.message_ids, fu |-> fu,
                        pending |-> r.pending, next |-> r.next]

\* PATCH /folders/<folder_id>: the baseline share, without a proposal.
share_folder(owner_email, folder_id, emails) ==
    LET r == insert_folder_users_relations(folder_id, owner_email,
                                           emails \cup {owner_email}, FALSE, "")
    IN  /\ folders_users' = r.fu
        /\ IF r.kind = "Ok"
           THEN /\ sse_sent' = {Notification(folder_id, e) : e \in emails \cup {owner_email}}
                /\ resp' = Resp("share_folder", owner_email, folder_id, 200)
           ELSE /\ sse_sent' = {}
                /\ resp' = Resp("share_folder", owner_email, folder_id, 404)
        /\ UNCHANGED <<users, folders, next_folder_id, mqVars, kpVars, storeVars, fifoVars>>

\* PATCH /v2/folders/<folder_id>: share with one user, publishing the proposal.
v2_share_folder(owner, folder_id, email, proposal) ==
    LET r == insert_folder_users_relations(folder_id, owner, {email, owner}, TRUE, proposal)
    IN  /\ r.next - 1 <= MaxMessageId
        /\ folders_users' = r.fu
        /\ pending_group_messages' = r.pending
        /\ next_message_id' = r.next
        /\ IF r.kind = "Ok"
           THEN /\ sse_sent' = {Notification(folder_id, user) : user \in r.is_owner}
                /\ resp' = [Resp("v2_share_folder", owner, folder_id, 200)
                               EXCEPT !.email = email, !.message_ids = r.message_ids]
           ELSE /\ sse_sent' = {}
                /\ resp' = [Resp("v2_share_folder", owner, folder_id,
                                 IF r.kind = "Conflict" THEN 409 ELSE 404)
                               EXCEPT !.email = email]
        /\ UNCHANGED <<users, folders, next_folder_id, application_messages, publish, kpVars,
                       storeVars, fifoVars>>

\* Mutant: the cleanup also deletes the messages the user created.
remove_user_from_folder_and_created(folder_id, email) ==
    LET fu == folders_users \ {<<folder_id, email>>}
        rows == {m \in pending_group_messages :
                    /\ m.folder_id = folder_id
                    /\ (m.user_email = email \/ m.creator = email)}
        count == count_users_for_folder(fu, folder_id)
    IN  /\ folders_users' = fu
        /\ pending_group_messages' = pending_group_messages \ rows
        /\ application_messages' = Cascade(application_messages, rows)
        /\ folders' = IF count = 0 THEN folders \ {folder_id} ELSE folders

\* db::remove_user_from_folder: one transaction deleting the membership, the
\* user's pending messages of the folder and, when no membership is left, the
\* folder row.
remove_user_from_folder(folder_id, email) ==
    LET fu == folders_users \ {<<folder_id, email>>}
        rows == Queue(pending_group_messages, folder_id, email)
        count == count_users_for_folder(fu, folder_id)
    IN  /\ folders_users' = fu
        /\ pending_group_messages' = pending_group_messages \ rows
        /\ application_messages' = Cascade(application_messages, rows)
        /\ folders' = IF count = 0 THEN folders \ {folder_id} ELSE folders

\* DELETE /folders/<folder_id>
remove_self_from_folder(email, folder_id) ==
    /\ remove_user_from_folder(folder_id, email)
    /\ resp' = Resp("remove_self_from_folder", email, folder_id, 200)
    /\ sse_sent' = {}
    /\ UNCHANGED <<users, next_folder_id, next_message_id, publish, kpVars, storeVars, fifoVars>>

\* storage::read_file on the metadata file: ObjectStore::get fails when the
\* object does not exist.
read_metadata(st, folder_id) ==
    LET location == get_location_for_metadata_file(folder_id)
    IN  IF Exists(st, location)
        THEN [err |-> "", content |-> st[location].bytes, e_tag |-> st[location].e_tag]
        ELSE [err |-> "NotFound", content |-> "", e_tag |-> NoETag]

\* GET /folders/<folder_id>: RowNotFound of get_folder_by_id is answered 404,
\* a metadata file that cannot be read 500.
get_folder(email, folder_id, store_ok) ==
    /\ IF ~get_folder_by_id(email, folder_id)
       THEN resp' = Resp("get_folder", email, folder_id, 404)
       ELSE LET metadata == read_metadata(store, folder_id)
            IN  IF store_ok /\ metadata.err = ""
                THEN resp' = [Resp("get_folder", email, folder_id, 200)
                                 EXCEPT !.e_tag = metadata.e_tag,
                                        !.payload = metadata.content]
                ELSE resp' = Resp("get_folder", email, folder_id, 500)
    /\ sse_sent' = {}
    /\ UNCHANGED <<dbVars, mqVars, kpVars, storeVars, fifoVars>>

\* ------------------------------------------------------------ users
\* users.user_email is the primary key of the users table: the INSERT of an
\* email that is already there fails.
DuplicateEntry(email) == email \in users

\* Mutant: INSERT IGNORE.
insert_user_ignore(email) ==
    [err |-> "", users |-> users \cup {email}]

\* db::insert_user
insert_user(email) ==
    IF DuplicateEntry(email)
    THEN [err |-> "Database", users |-> users]
    ELSE [err |-> "", users |-> users \cup {email}]

\* POST /users
create_user(emails, email) ==
    /\ IF email \notin emails
       THEN /\ resp' = [Resp("create_user", "", 0, 400)
                           EXCEPT !.email = email, !.certificate = emails]
            /\ UNCHANGED users
       ELSE LET r == insert_user(email)
            IN  /\ users' = r.users
                /\ resp' = [Resp("create_user", "", 0, IF r.err = "" THEN 201 ELSE 409)
                               EXCEPT !.email = email, !.certificate = emails]
    /\ sse_sent' = {}
    /\ UNCHANGED <<folders, folders_users, next_folder_id, mqVars, kpVars, storeVars, fifoVars>>

\* db::get_users_by_emails: SELECT * FROM users WHERE user_email IN (...)
get_users_by_emails(user_emails) == {u \in users : u \in user_emails}

\* Mutant: any registered email of the certificate authenticates.
get_known_user_any_match(emails) ==
    LET found == get_users_by_emails(emails)
    IN  IF found # {}
        THEN [ok |-> TRUE, user_email |-> CHOOSE u \in found : TRUE]
        ELSE [ok |-> FALSE, user_email |-> ""]

\* server::get_known_user: Ok only when exactly one user row is found.
get_known_user(emails) ==
    LET found == get_users_by_emails(emails)
    IN  IF Cardinality(found) = 1
        THEN [ok |-> TRUE, user_email |-> CHOOSE u \in found : TRUE]
        ELSE [ok |-> FALSE, user_email |-> ""]

\* server::get_known_user_or_unauthorized at the head of a handler, when
\* get_known_user fails: the request is answered 401 and the handler returns.
get_known_user_or_unauthorized(emails, op) ==
    /\ ~get_known_user(emails).ok
    /\ resp' = [Resp(op, "", 0, 401) EXCEPT !.certificate = emails]
    /\ sse_sent' = {}
    /\ UNCHANGED <<dbVars, mqVars, kpVars, storeVars, fifoVars>>

\* ------------------------------------------------------------ events
\* Mutant: the subscriber forwards every notification of the channel.
sse_event_unfiltered(msg, user_email) ==
    [yield |-> TRUE,
     data |-> IF msg.folder_id = 0 THEN "-1" ELSE ToString(msg.folder_id)]

\* The body of the subscriber's loop for a received notification: a
\* notification for somebody else is skipped, the own one is yielded as an
\* event whose data is the folder_id, or -1 when there is none.
sse_event(msg, user_email) ==
    IF msg.receiver = user_email
    THEN [yield |-> TRUE,
          data |-> IF msg.folder_id = 0 THEN "-1" ELSE ToString(msg.folder_id)]
    ELSE [yield |-> FALSE, data |-> ""]

\* GET /notifications: one turn of the stream of a subscriber presenting the
\* certificate emails.  An unknown user gets the single event "Unknown"; a
\* known one receives msg from the channel, skips it when the receiver lagged
\* behind or the notification is for somebody else, and yields it otherwise.
\* The channel is a broadcast: the notification stays available to the other
\* subscribers.
sse(emails, msg, lagged) ==
    LET known_user == get_known_user(emails)
    IN  /\ IF ~known_user.ok
           THEN resp' = [Resp("sse", "", 0, 401)
                            EXCEPT !.certificate = emails, !.payload = "Unknown"]
           ELSE /\ msg \in sse_sent
                /\ IF lagged \/ ~sse_event(msg, known_user.user_email).yield
                   THEN UNCHANGED resp
                   ELSE resp' = [Resp("sse", known_user.user_email, msg.folder_id, 200)
                                    EXCEPT !.certificate = emails,
                                           !.email = msg.receiver,
                                           !.payload =
                                               sse_event(msg, known_user.user_email).data]
        /\ UNCHANGED <<dbVars, mqVars, kpVars, storeVars, fifoVars, sse_sent>>

\* ------------------------------------------------------------ files
NoUpload == [pc |-> "idle", op |-> "", user |-> "", folder_id |-> 0, file_id |-> ""]

SSFStatus(err) ==
    CASE err = "" -> 201
      [] err \in {"Precondition", "AlreadyExists"} -> 409
      [] OTHER -> 500

\* POST /folders/<folder_id>/files/<file_id> up to state.lock(): the file name
\* and the membership are checked on the database before the store is locked.
upload_file_begin(p, email, folder_id, file_id) ==
    /\ upload[p].pc = "idle"
    /\ IF is_metadata_file_name(file_id)
       THEN /\ resp' = [Resp("upload_file", email, folder_id, 400) EXCEPT !.file_id = file_id]
            /\ UNCHANGED upload
       ELSE IF ~get_folder_by_id(email, folder_id)
            THEN /\ resp' = [Resp("upload_file", email, folder_id, 401)
                                EXCEPT !.file_id = file_id]
                 /\ UNCHANGED upload
            ELSE /\ resp' = NoResp
                 /\ upload' = [upload EXCEPT ![p] =
                                  [pc |-> "write", op |-> "upload_file", user |-> email,
                                   folder_id |-> folder_id, file_id |-> file_id]]
    /\ sse_sent' = {}
    /\ UNCHANGED <<dbVars, mqVars, kpVars, store, next_e_tag, accepted, uploaded, fifoVars>>

\* POST /folders/<folder_id>/metadatas up to state.lock().
post_metadata_begin(p, email, folder_id) ==
    /\ upload[p].pc = "idle"
    /\ IF ~get_folder_by_id(email, folder_id)
       THEN /\ resp' = Resp("post_metadata", email, folder_id, 401)
            /\ UNCHANGED upload
       ELSE /\ resp' = NoResp
            /\ upload' = [upload EXCEPT ![p] =
                             [pc |-> "write", op |-> "post_metadata", user |-> email,
                              folder_id |-> folder_id, file_id |-> ""]]
    /\ sse_sent' = {}
    /\ UNCHANGED <<dbVars, mqVars, kpVars, store, next_e_tag, accepted, uploaded, fifoVars>>

\* The rest of upload_file / post_metadata: storage::write under the store's
\* mutex and the response.  The form fields of the request are read here.
locked_write(p, write_input, file_ok) ==
    LET r == write(store, next_e_tag, write_input, file_ok)
    IN  /\ upload[p].pc = "write"
        /\ r.next - 1 <= MaxETag
        /\ store' = r.store
        /\ next_e_tag' = r.next
        /\ accepted' = IF r.next > next_e_tag
                       THEN accepted \cup {<<write_input.folder_id, write_input.parent_etag>>}
                       ELSE accepted
        /\ uploaded' = IF r.err = "" /\ write_input.file_to_write # NoFile
                       THEN Put(uploaded,
                                get_location_for_file(write_input.folder_id, write_input.file_id),
                                write_input.file_to_write, r.e_tag)
                       ELSE uploaded
        /\ resp' = [Resp(upload[p].op, upload[p].user, upload[p].folder_id, SSFStatus(r.err))
                       EXCEPT !.file_id = upload[p].file_id, !.e_tag = r.e_tag,
                              !.parent = write_input.parent_etag,
                              !.parent_version = write_input.parent_version,
                              !.file = write_input.file_to_write,
                              !.metadata = write_input.metadata_file]
        /\ upload' = [upload EXCEPT ![p] = NoUpload]
        /\ sse_sent' = {}
        /\ UNCHANGED <<dbVars, mqVars, kpVars, fifoVars>>

upload_file_write(p, file, metadata, parent_etag, parent_version, file_ok) ==
    /\ upload[p].op = "upload_file"
    /\ locked_write(p, WriteInput(upload[p].folder_id, upload[p].file_id, file, metadata,
                                  parent_etag, parent_version), file_ok)

post_metadata_write(p, metadata, parent_etag, parent_version) ==
    /\ upload[p].op = "post_metadata"
    /\ locked_write(p, WriteInput(upload[p].folder_id, "", NoFile, metadata,
                                  parent_etag, parent_version), TRUE)

\* Mutant: every read goes to the metadata location.
read_file_at_metadata(st, folder_id, file_id) ==
    LET location == get_location_for_metadata_file(folder_id)
    IN  IF Exists(st, location)
        THEN [err |-> "", content |-> st[location].bytes, e_tag |-> st[location].e_tag]
        ELSE [err |-> "NotFound", content |-> "", e_tag |-> NoETag]

\* storage::read_file: ObjectStore::get answers NotFound when there is no object
\* at the location, otherwise the object's bytes and its own ObjectMeta.
read_file(st, folder_id, file_id) ==
    LET location == get_location_for_file(folder_id, file_id)
    IN  IF Exists(st, location)
        THEN [err |-> "", content |-> st[location].bytes, e_tag |-> st[location].e_tag]
        ELSE [err |-> "NotFound", content |-> "", e_tag |-> NoETag]

\* The answer of get_file / get_metadata for the outcome of the read; store_ok
\* is the outcome of the round trip to the object store.
read_response(op, email, folder_id, file_id, read, store_ok) ==
    IF ~store_ok
    THEN [Resp(op, email, folder_id, 500) EXCEPT !.file_id = file_id]
    ELSE IF read.err = "NotFound"
         THEN [Resp(op, email, folder_id, 404) EXCEPT !.file_id = file_id]
         ELSE [Resp(op, email, folder_id, 200)
                  EXCEPT !.file_id = file_id, !.file = read.content, !.e_tag = read.e_tag]

\* GET /folders/<folder_id>/files/<file_id>
get_file(email, folder_id, file_id, store_ok) ==
    /\ IF ~get_folder_by_id(email, folder_id)
       THEN resp' = [Resp("get_file", email, folder_id, 401) EXCEPT !.file_id = file_id]
       ELSE resp' = read_response("get_file", email, folder_id, file_id,
                                  read_file(store, folder_id, file_id), store_ok)
    /\ sse_sent' = {}
    /\ UNCHANGED <<dbVars, mqVars, kpVars, storeVars, fifoVars>>

\* GET /folders/<folder_id>/metadatas
get_metadata(email, folder_id, store_ok) ==
    /\ IF ~get_folder_by_id(email, folder_id)
       THEN resp' = Resp("get_metadata", email, folder_id, 401)
       ELSE resp' = read_response("get_metadata", email, folder_id, MetadataFileName,
                                  read_metadata(store, folder_id), store_ok)
    /\ sse_sent' = {}
    /\ UNCHANGED <<dbVars, mqVars, kpVars, storeVars, fifoVars>>

\* ------------------------------------------------------------ key packages
NoConsume ==
    [pc |-> "idle", user_email |-> "", requestor |-> "", folder_id |-> 0,
     key_package_id |-> 0, key_package |-> ""]

insert_key_package(user_email, key_package) ==
    /\ key_packages' = key_packages \cup
           {[key_package_id |-> next_key_package_id, user_email |-> user_email,
             key_package |-> key_package]}
    /\ next_key_package_id' = next_key_package_id + 1

\* POST /users/keys
publish_key_package(email, key_package) ==
    /\ next_key_package_id <= MaxKeyPackageId
    /\ insert_key_package(email, key_package)
    /\ resp' = [Resp("publish_key_package", email, 0, 201)
                   EXCEPT !.key_package_id = next_key_package_id]
    /\ sse_sent' = {}
    /\ UNCHANGED <<dbVars, mqVars, consume, returned, storeVars, fifoVars>>

\* Mutant: ORDER BY key_package_id DESC.
FirstKeyPackage_desc(kps, user_email) ==
    CHOOSE k \in kps :
        /\ k.user_email = user_email
        /\ \A j \in kps : j.user_email = user_email => k.key_package_id >= j.key_package_id

FirstKeyPackage(kps, user_email) ==
    CHOOSE k \in kps :
        /\ k.user_email = user_email
        /\ \A j \in kps : j.user_email = user_email => k.key_package_id <= j.key_package_id

\* db::consume_key_package up to its SELECT: the membership list is fetched and
\* only its error is looked at, then the owner's first key package is read with
\* a plain (non-locking) SELECT.  No row: RowNotFound, answered 404.
consume_key_package_select(p, user_email, requestor, folder_id) ==
    /\ consume[p].pc = "idle"
    /\ IF \E k \in key_packages : k.user_email = user_email
       THEN LET k == FirstKeyPackage(key_packages, user_email)
            IN  /\ consume' = [consume EXCEPT ![p] =
                                  [pc |-> "selected", user_email |-> user_email,
                                   requestor |-> requestor, folder_id |-> folder_id,
                                   key_package_id |-> k.key_package_id,
                                   key_package |-> k.key_package]]
                /\ resp' = NoResp
       ELSE /\ UNCHANGED consume
            /\ resp' = [Resp("fetch_key_package", requestor, folder_id, 404)
                           EXCEPT !.email = user_email]
    /\ sse_sent' = {}
    /\ UNCHANGED <<dbVars, mqVars, key_packages, next_key_package_id, returned,
                   storeVars, fifoVars>>

\* The rest of db::consume_key_package and of fetch_key_package: DELETE by
\* key_package_id (the number of deleted rows is not looked at), commit, the
\* notification to the owner and the 200 response carrying the row read before.
consume_key_package_delete(p) ==
    /\ consume[p].pc = "selected"
    /\ key_packages' = {k \in key_packages : k.key_package_id # consume[p].key_package_id}
    /\ returned' = [returned EXCEPT ![consume[p].key_package_id] = @ + 1]
    /\ resp' = [Resp("fetch_key_package", consume[p].requestor, consume[p].folder_id, 200)
                   EXCEPT !.email = consume[p].user_email,
                          !.payload = consume[p].key_package,
                          !.key_package_id = consume[p].key_package_id]
    /\ sse_sent' = {Notification(0, consume[p].user_email)}
    /\ consume' = [consume EXCEPT ![p] = NoConsume]
    /\ UNCHANGED <<dbVars, mqVars, next_key_package_id, storeVars, fifoVars>>

Init ==
    /\ users = Registered
    /\ folders = {}
    /\ folders_users = {}
    /\ next_folder_id = 1
    /\ pending_group_messages = {}
    /\ next_message_id = 1
    /\ application_messages = {}
    /\ publish = [p \in Procs |-> NoPublish]
    /\ key_packages = {}
    /\ next_key_package_id = 1
    /\ store = <<>>
    /\ next_e_tag = 1
    /\ accepted = {}
    /\ uploaded = <<>>
    /\ upload = [p \in Procs |-> NoUpload]
    /\ consume = [p \in Procs |-> NoConsume]
    /\ returned = [k \in KeyPackageIds |-> 0]
    /\ last_read = [f \in FolderIds |-> [u \in Users |-> 0]]
    /\ acked = [f \in FolderIds |-> [u \in Users |-> FALSE]]
    /\ sse_sent = {}
    /\ resp = NoResp

CreateFolder ==
    \E email \in users, metadata \in InitialMetadata, store_ok \in BOOLEAN :
        create_folder(email, metadata, store_ok)

ShareFolder ==
    \E email \in users, folder_id \in FolderIds, emails \in SUBSET users :
        share_folder(email, folder_id, emails)

V2ShareFolder ==
    \E owner \in users, folder_id \in FolderIds, email \in users, proposal \in Payloads :
        v2_share_folder(owner, folder_id, email, proposal)

RemoveSelfFromFolder ==
    \E email \in users, folder_id \in FolderIds :
        remove_self_from_folder(email, folder_id)

TryPublishProposal ==
    \E email \in users, folder_id \in FolderIds, proposal \in Payloads :
        try_publish_proposal(email, folder_id, proposal)

TryPublishApplicationMsg ==
    \E email \in users, folder_id \in FolderIds, message_ids \in SUBSET MessageIds, payload \in Payloads :
        try_publish_application_msg(email, folder_id, message_ids, payload)

GetPendingProposal ==
    \E email \in users, folder_id \in FolderIds :
        get_pending_proposal(email, folder_id) /\ UNCHANGED fifoVars

AckMessage ==
    \E email \in users, folder_id \in FolderIds, message_id \in MessageIds :
        ack_message(email, folder_id, message_id) /\ UNCHANGED fifoVars

Next ==
    \/ CreateFolder
    \/ ShareFolder
    \/ V2ShareFolder
    \/ RemoveSelfFromFolder
    \/ TryPublishProposal
    \/ TryPublishApplicationMsg
    \/ GetPendingProposal
    \/ AckMessage

Spec == Init /\ [][Next]_vars

\* ------------------------------------------- a group of three members
\* The message queue of a folder shared by three users, so that a proposal has
\* more than one recipient: the state after every user of Users registered, "a"
\* created folder 1 and shared it with "b" and "c".
InitGroup ==
    /\ users = Users
    /\ folders = {1}
    /\ folders_users = {<<1, u>> : u \in Users}
    /\ next_folder_id = 2
    /\ pending_group_messages = {}
    /\ next_message_id = 1
    /\ application_messages = {}
    /\ publish = [p \in Procs |-> NoPublish]
    /\ key_packages = {}
    /\ next_key_package_id = 1
    /\ store = init_metadata(<<>>, 1, 1, "m0").store
    /\ next_e_tag = 2
    /\ accepted = {<<1, NoETag>>}
    /\ uploaded = <<>>
    /\ upload = [p \in Procs |-> NoUpload]
    /\ consume = [p \in Procs |-> NoConsume]
    /\ returned = [k \in KeyPackageIds |-> 0]
    /\ last_read = [f \in FolderIds |-> [u \in Users |-> 0]]
    /\ acked = [f \in FolderIds |-> [u \in Users |-> FALSE]]
    /\ sse_sent = {}
    /\ resp = NoResp

NextGroup ==
    \/ TryPublishProposal
    \/ TryPublishApplicationMsg
    \/ GetPendingProposal
    \/ AckMessage

SpecGroup == InitGroup /\ [][NextGroup]_vars

\* ------------------------------------------- writers of the object store
UploadFileBegin ==
    \E p \in Procs, email \in users, folder_id \in FolderIds, file_id \in FileIds :
        upload_file_begin(p, email, folder_id, file_id)

PostMetadataBegin ==
    \E p \in Procs, email \in users, folder_id \in FolderIds :
        post_metadata_begin(p, email, folder_id)

UploadFileWrite ==
    \E p \in Procs, file \in FileBytes, metadata \in Metadatas, parent_etag \in {NoETag} \cup ETags, parent_version \in {NoETag, 1}, file_ok \in BOOLEAN :
        upload_file_write(p, file, metadata, parent_etag, parent_version, file_ok)

PostMetadataWrite ==
    \E p \in Procs, metadata \in Metadatas, parent_etag \in {NoETag} \cup ETags, parent_version \in {NoETag, 1} :
        post_metadata_write(p, metadata, parent_etag, parent_version)

NextStore ==
    \/ CreateFolder
    \/ ShareFolder
    \/ UploadFileBegin
    \/ PostMetadataBegin
    \/ UploadFileWrite
    \/ PostMetadataWrite

SpecStore == Init /\ [][NextStore]_vars

\* ------------------------------------------- readers of the object store
GetFile ==
    \E email \in users, folder_id \in FolderIds, file_id \in FileIds, store_ok \in BOOLEAN :
        get_file(email, folder_id, file_id, store_ok)

GetMetadata ==
    \E email \in users, folder_id \in FolderIds, store_ok \in BOOLEAN :
        get_metadata(email, folder_id, store_ok)

NextFiles ==
    \/ CreateFolder
    \/ UploadFileBegin
    \/ PostMetadataBegin
    \/ UploadFileWrite
    \/ PostMetadataWrite
    \/ GetFile
    \/ GetMetadata

SpecFiles == Init /\ [][NextFiles]_vars

\* ------------------------------------------- concurrent key package fetches
PublishKeyPackage ==
    \E email \in users, key_package \in Blobs :
        publish_key_package(email, key_package)

ConsumeSelect ==
    \E p \in Procs, user_email \in users, requestor \in users, folder_id \in FolderIds :
        consume_key_package_select(p, user_email, requestor, folder_id)

ConsumeDelete ==
    \E p \in Procs : consume_key_package_delete(p)

NextKP ==
    \/ CreateFolder
    \/ ShareFolder
    \/ PublishKeyPackage
    \/ ConsumeSelect
    \/ ConsumeDelete

SpecKP == Init /\ [][NextKP]_vars

\* Folder membership as GET /folders/<folder_id> sees it.
GetFolder ==
    \E email \in users, folder_id \in FolderIds, store_ok \in BOOLEAN :
        get_folder(email, folder_id, store_ok)

NextFolders ==
    \/ CreateFolder
    \/ ShareFolder
    \/ V2ShareFolder
    \/ RemoveSelfFromFolder
    \/ GetFolder

SpecFolders == Init /\ [][NextFolders]_vars

\* ------------------------------------------- registration and certificates
\* The service from an empty users table, every request carrying the emails of
\* its client certificate.
InitUsers ==
    /\ users = {}
    /\ folders = {}
    /\ folders_users = {}
    /\ next_folder_id = 1
    /\ pending_group_messages = {}
    /\ next_message_id = 1
    /\ application_messages = {}
    /\ publish = [p \in Procs |-> NoPublish]
    /\ key_packages = {}
    /\ next_key_package_id = 1
    /\ store = <<>>
    /\ next_e_tag = 1
    /\ accepted = {}
    /\ uploaded = <<>>
    /\ upload = [p \in Procs |-> NoUpload]
    /\ consume = [p \in Procs |-> NoConsume]
    /\ returned = [k \in KeyPackageIds |-> 0]
    /\ last_read = [f \in FolderIds |-> [u \in Users |-> 0]]
    /\ acked = [f \in FolderIds |-> [u \in Users |-> FALSE]]
    /\ sse_sent = {}
    /\ resp = NoResp

CreateUser ==
    \E emails \in Certificates, email \in Users :
        create_user(emails, email)

CertCreateFolder(emails) ==
    \E metadata \in InitialMetadata, store_ok \in BOOLEAN :
        IF get_known_user(emails).ok
        THEN create_folder(get_known_user(emails).user_email, metadata, store_ok)
        ELSE get_known_user_or_unauthorized(emails, "create_folder")

CertRemoveSelfFromFolder(emails) ==
    \E folder_id \in FolderIds :
        IF get_known_user(emails).ok
        THEN remove_self_from_folder(get_known_user(emails).user_email, folder_id)
        ELSE get_known_user_or_unauthorized(emails, "remove_self_from_folder")

CertGetFolder(emails) ==
    \E folder_id \in FolderIds, store_ok \in BOOLEAN :
        IF get_known_user(emails).ok
        THEN get_folder(get_known_user(emails).user_email, folder_id, store_ok)
        ELSE get_known_user_or_unauthorized(emails, "get_folder")

CertRequest(emails) ==
    \/ CertCreateFolder(emails)
    \/ CertRemoveSelfFromFolder(emails)
    \/ CertGetFolder(emails)

AuthenticatedRequest == \E emails \in Certificates : CertRequest(emails)

NextUsers ==
    \/ CreateUser
    \/ AuthenticatedRequest

SpecUsers == InitUsers /\ [][NextUsers]_vars

\* The key package pool with fetch_key_package requests served one after the
\* other: a single connection runs db::consume_key_package at a time.
ConsumeSelectSeq ==
    \E user_email \in users, requestor \in users, folder_id \in FolderIds :
        consume_key_package_select("t1", user_email, requestor, folder_id)

ConsumeDeleteSeq == consume_key_package_delete("t1")

NextKPSeq ==
    \/ CreateFolder
    \/ ShareFolder
    \/ PublishKeyPackage
    \/ ConsumeSelectSeq
    \/ ConsumeDeleteSeq

SpecKPSeq == Init /\ [][NextKPSeq]_vars

\* ------------------------------------------- per-queue read/ack history
\* The same service with a record, per (folder, recipient), of the last
\* message_id a 200 get_pending_proposal returned and of whether a 200
\* ack_message was answered since.
GetPendingProposalTracked ==
    \E email \in users, folder_id \in FolderIds :
        /\ get_pending_proposal(email, folder_id)
        /\ IF resp'.status = 200
           THEN /\ last_read' = [last_read EXCEPT ![folder_id][email] = resp'.message_id]
                /\ acked' = [acked EXCEPT ![folder_id][email] = FALSE]
           ELSE UNCHANGED fifoVars

AckMessageTracked ==
    \E email \in users, folder_id \in FolderIds, message_id \in MessageIds :
        /\ ack_message(email, folder_id, message_id)
        /\ acked' = [acked EXCEPT ![folder_id][email] =
                        acked[folder_id][email] \/ resp'.status = 200]
        /\ UNCHANGED last_read

\* PATCH /folders/<folder_id>/proposals for one message_id at a time.
TryPublishApplicationMsgOne ==
    \E email \in users, folder_id \in FolderIds, message_id \in MessageIds, payload \in Payloads :
        try_publish_application_msg(email, folder_id, {message_id}, payload)

NextFifo ==
    \/ CreateFolder
    \/ V2ShareFolder
    \/ RemoveSelfFromFolder
    \/ TryPublishProposal
    \/ TryPublishApplicationMsgOne
    \/ GetPendingProposalTracked
    \/ AckMessageTracked

SpecFifo == Init /\ [][NextFifo]_vars


\* ------------------------------------------------------------ claims
\* C1: publish_proposal called while the sender has a pending message in its
\* own (folder_id, sender) queue answers 409 and inserts no pending message.
C1_ConflictPendingInsertsNothing ==
    [][(/\ resp'.op = "publish_proposal"
        /\ Queue(pending_group_messages, resp'.folder_id, resp'.user) # {})
       => (/\ resp'.status = 409
           /\ pending_group_messages' = pending_group_messages)]_vars

C1_Witness ==
    /\ resp.op = "publish_proposal"
    /\ resp.status = 409
    /\ Queue(pending_group_messages, resp.folder_id, resp.user) # {}

C5_FolderIffMembership ==
    \A folder_id \in FolderIds :
        folder_id \in folders <=> \E email \in Users : <<folder_id, email>> \in folders_users

C5_Witness ==
    /\ resp.op = "remove_self_from_folder"
    /\ resp.folder_id < next_folder_id
    /\ resp.folder_id \notin folders
    /\ ~ \E email \in Users : <<resp.folder_id, email>> \in folders_users

\* The message of the smallest message_id in a queue, stated on the table.
IsHead(m, folder_id, user_email) ==
    /\ m \in pending_group_messages
    /\ m.folder_id = folder_id
    /\ m.user_email = user_email
    /\ \A n \in pending_group_messages :
          (n.folder_id = folder_id /\ n.user_email = user_email)
              => m.message_id <= n.message_id

HasApplicationMessage(m) == \E x \in application_messages : x.message_id = m.message_id

\* C7: get_first answers 404 iff the queue is empty, 429 iff the head has no
\* application message, and otherwise the head's message_id, proposal payload
\* and application payload; later messages of the queue do not matter.
C7_GetFirstOutcome ==
    resp.op = "get_pending_proposal" =>
        /\ resp.status \in {200, 404, 429}
        /\ resp.status = 404 <=> ~ \E m \in pending_group_messages : IsHead(m, resp.folder_id, resp.user)
        /\ resp.status = 429 <=>
              \E m \in pending_group_messages :
                  IsHead(m, resp.folder_id, resp.user) /\ ~HasApplicationMessage(m)
        /\ resp.status = 200 =>
              \E m \in pending_group_messages :
                  /\ IsHead(m, resp.folder_id, resp.user)
                  /\ resp.message_id = m.message_id
                  /\ resp.payload = m.payload
                  /\ [message_id |-> m.message_id, payload |-> resp.application_payload]
                         \in application_messages

C7_Witness ==
    /\ resp.op = "get_pending_proposal"
    /\ resp.status = 429
    /\ \E m \in pending_group_messages, n \in pending_group_messages :
          /\ IsHead(m, resp.folder_id, resp.user)
          /\ n.folder_id = m.folder_id
          /\ n.user_email = m.user_email
          /\ n.message_id > m.message_id
          /\ HasApplicationMessage(n)

\* C8: publish_proposal by a registered user who is not a member of the folder
\* inserts no pending message.
C8_NonMemberPublishInsertsNothing ==
    [][(/\ resp'.op = "publish_proposal"
        /\ ~get_folder_by_id(resp'.user, resp'.folder_id))
       => pending_group_messages' = pending_group_messages]_vars

\* C9: publish_application_payload inserts no application message when some
\* msg_id of the request is not a pending message of the folder created by the
\* sender.
C9_ForeignMessageNotPatched ==
    [][(/\ resp'.op = "publish_application_msg"
        /\ \E i \in resp'.ids :
              ~ \E m \in pending_group_messages :
                   /\ m.message_id = i
                   /\ m.folder_id = resp'.folder_id
                   /\ m.creator = resp'.user)
       => application_messages' = application_messages]_vars

\* C10: after a successful share_folder_with_proposal for an invitee who was not
\* a member, the invitee is a member and received no pending message of the call.
C10_InviteeGetsNoProposal ==
    [][(/\ resp'.op = "v2_share_folder"
        /\ resp'.status = 200
        /\ <<resp'.folder_id, resp'.email>> \notin folders_users)
       => (/\ <<resp'.folder_id, resp'.email>> \in folders_users'
           /\ \A m \in pending_group_messages' \ pending_group_messages :
                 m.user_email # resp'.email)]_vars

\* C6: a 200 get_first returns the smallest message_id of the queue, never a
\* message_id below the one it returned before, and a strictly greater one
\* when a 200 ack was answered since the previous 200 get_first.
C6_FifoMonotone ==
    [][(resp'.op = "get_pending_proposal" /\ resp'.status = 200)
       => (/\ \A m \in Queue(pending_group_messages, resp'.folder_id, resp'.user) :
                 resp'.message_id <= m.message_id
           /\ resp'.message_id >= last_read[resp'.folder_id][resp'.user]
           /\ acked[resp'.folder_id][resp'.user]
                 => resp'.message_id > last_read[resp'.folder_id][resp'.user])]_vars

\* C3: a write (upload_file or post_metadata) that presents a parent e_tag for
\* which a metadata version of the folder was already accepted is answered 409
\* and leaves the store unchanged, a 409 never changes the store, and a 201
\* write is the first accepted for its parent e_tag.
C3_OneWriterPerParentToken ==
    [][(resp'.op \in {"upload_file", "post_metadata"} /\ resp'.status \in {201, 409, 500})
       => (/\ (resp'.parent # NoETag /\ <<resp'.folder_id, resp'.parent>> \in accepted)
                 => (resp'.status = 409 /\ store' = store)
           /\ resp'.status = 409 => store' = store
           /\ resp'.status = 201 => <<resp'.folder_id, resp'.parent>> \notin accepted)]_vars

C3_Witness ==
    /\ resp.op \in {"upload_file", "post_metadata"}
    /\ resp.status = 409
    /\ resp.parent # NoETag
    /\ <<resp.folder_id, resp.parent>> \in accepted
    /\ \E p \in Procs : upload[p].pc = "write"

\* C4: no key package is returned by more than one consume call.
C4_KeyPackageReturnedOnce ==
    \A k \in KeyPackageIds : returned[k] <= 1

\* C11: after every step each application message has a pending message of the
\* same message_id, and every application message a request inserts belongs to
\* a pending message of the request's folder created by the request's sender.
C11_ApplicationMessageHasItsPending ==
    [][/\ \A x \in application_messages' :
             \E m \in pending_group_messages' : m.message_id = x.message_id
       /\ \A x \in application_messages' \ application_messages :
             \E m \in pending_group_messages' :
                 /\ m.message_id = x.message_id
                 /\ m.folder_id = resp'.folder_id
                 /\ m.creator = resp'.user]_vars

\* C12: an ack for a message_id above the smallest pending message_id of the
\* queue answers 400 and changes nothing, and an ack removes at most the
\* message of the smallest message_id of the caller's queue.
C12_AckInOrder ==
    [][resp'.op = "ack_message"
       => (/\ (\E m \in Queue(pending_group_messages, resp'.folder_id, resp'.user) :
                  m.message_id < resp'.message_id)
                 => (/\ resp'.status = 400
                     /\ pending_group_messages' = pending_group_messages
                     /\ application_messages' = application_messages)
           /\ \A m \in pending_group_messages \ pending_group_messages' :
                 IsHead(m, resp'.folder_id, resp'.user))]_vars

C12_Witness ==
    /\ resp.op = "ack_message"
    /\ resp.status = 400
    /\ \E m \in Queue(pending_group_messages, resp.folder_id, resp.user),
          n \in Queue(pending_group_messages, resp.folder_id, resp.user) :
          m.message_id < n.message_id /\ n.message_id = resp.message_id

\* C13: an ack for a message_id below the smallest pending message_id of the
\* queue answers 400 (Ok(false)) and deletes nothing.
C13_AckBelowHeadRejected ==
    [][(/\ resp'.op = "ack_message"
        /\ Queue(pending_group_messages, resp'.folder_id, resp'.user) # {}
        /\ \A m \in Queue(pending_group_messages, resp'.folder_id, resp'.user) :
              resp'.message_id < m.message_id)
       => (/\ resp'.status = 400
           /\ pending_group_messages' = pending_group_messages)]_vars

\* C16: share_folder_with_proposal by an owner who has a pending message in
\* the folder answers 409 and commits nothing: no membership and no pending
\* message is inserted.
C16_ShareConflictCommitsNothing ==
    [][(/\ resp'.op = "v2_share_folder"
        /\ Queue(pending_group_messages, resp'.folder_id, resp'.user) # {})
       => (/\ resp'.status = 409
           /\ folders_users' = folders_users
           /\ pending_group_messages' = pending_group_messages)]_vars

C16_Witness ==
    /\ resp.op = "v2_share_folder"
    /\ resp.status = 409
    /\ resp.email # resp.user
    /\ <<resp.folder_id, resp.email>> \notin folders_users
    /\ Queue(pending_group_messages, resp.folder_id, resp.user) # {}

\* C17: a share (with or without a proposal) by a user who is not a member of
\* the folder answers 404, as for a folder that does not exist, and adds no
\* membership row.
C17_ShareByNonMemberNotFound ==
    [][(/\ resp'.op \in {"share_folder", "v2_share_folder"}
        /\ ~get_folder_by_id(resp'.user, resp'.folder_id))
       => (/\ resp'.status = 404
           /\ folders_users' = folders_users
           /\ pending_group_messages' = pending_group_messages)]_vars

C17_Witness ==
    /\ resp.op \in {"share_folder", "v2_share_folder"}
    /\ resp.status = 404
    /\ resp.folder_id \in folders
    /\ <<resp.folder_id, resp.user>> \notin folders_users
    /\ \E u \in users : <<resp.folder_id, u>> \in folders_users

\* C14: a 200 ack removes nothing but the caller's pending row of the given
\* message_id, and leaves every other user's queue of every folder, and what
\* get_first answers them, unchanged.
C14_AckTouchesOwnRowOnly ==
    [][(resp'.op = "ack_message" /\ resp'.status = 200)
       => (/\ pending_group_messages' \subseteq pending_group_messages
           /\ \A m \in pending_group_messages \ pending_group_messages' :
                 /\ m.user_email = resp'.user
                 /\ m.folder_id = resp'.folder_id
                 /\ m.message_id = resp'.message_id
           /\ \A u \in Users \ {resp'.user}, f \in FolderIds :
                 /\ Queue(pending_group_messages', f, u) = Queue(pending_group_messages, f, u)
                 /\ get_first_message_by_folder_and_user(f, u, pending_group_messages',
                                                         application_messages')
                       = get_first_message_by_folder_and_user(f, u, pending_group_messages,
                                                              application_messages))]_vars

C14_Witness ==
    /\ resp.op = "ack_message"
    /\ resp.status = 200
    /\ resp.message_id < next_message_id
    /\ \A m \in pending_group_messages : m.message_id # resp.message_id
    /\ \E u \in Users \ {resp.user} :
          get_first_message_by_folder_and_user(resp.folder_id, u, pending_group_messages,
                                               application_messages).kind = "Some"

\* C15: a 200 publish_proposal inserts exactly one pending message for each
\* member of the folder other than the sender, with creator = sender and the
\* payload of the request, none for the sender, removes nothing, and returns
\* exactly the message_ids of the inserted messages.
C15_PublishOnePerOtherMember ==
    [][(resp'.op = "publish_proposal" /\ resp'.status = 200)
       => LET new == pending_group_messages' \ pending_group_messages
              others == {u \in Users : <<resp'.folder_id, u>> \in folders_users} \ {resp'.user}
          IN  /\ pending_group_messages \subseteq pending_group_messages'
              /\ {m.user_email : m \in new} = others
              /\ Cardinality(new) = Cardinality(others)
              /\ \A m \in new : /\ m.creator = resp'.user
                                /\ m.payload = resp'.payload
                                /\ m.folder_id = resp'.folder_id
                                /\ \A n \in pending_group_messages : n.message_id # m.message_id
              /\ Len(resp'.message_ids) = Cardinality(new)
              /\ Range(resp'.message_ids) = {m.message_id : m \in new}]_vars

C15_Witness ==
    /\ resp.op = "publish_proposal"
    /\ resp.status = 200
    /\ Len(resp.message_ids) = 2
    /\ \A i \in Range(resp.message_ids) :
          \E m \in pending_group_messages :
              m.message_id = i /\ m.creator = resp.user /\ m.payload = resp.payload

\* C18: fetch_key_package answers 200 only if the owner and the requestor are
\* both members of the folder of the request; otherwise it answers 404 and the
\* pool is unchanged.
C18_FetchOnlyBetweenMembers ==
    [][(/\ resp'.op = "fetch_key_package"
        /\ ~(/\ get_folder_by_id(resp'.email, resp'.folder_id)
             /\ get_folder_by_id(resp'.user, resp'.folder_id)))
       => (/\ resp'.status = 404
           /\ key_packages' = key_packages)]_vars

\* C19: with requests served one after the other, a 200 fetch_key_package
\* returns the owner's key package of smallest key_package_id, one that was
\* never returned before, and deletes exactly that row, every later key package
\* getting a larger key_package_id; a 404 is answered exactly when the owner
\* has no key package, and leaves the pool unchanged.
C19_FetchInIdOrder ==
    [][/\ (resp'.op = "fetch_key_package" /\ resp'.status = 200)
          => \E k \in key_packages :
                /\ k.key_package_id = resp'.key_package_id
                /\ k.user_email = resp'.email
                /\ k.key_package = resp'.payload
                /\ \A j \in key_packages :
                      j.user_email = k.user_email => k.key_package_id <= j.key_package_id
                /\ returned[k.key_package_id] = 0
                /\ key_packages' = key_packages \ {k}
       /\ (resp'.op = "fetch_key_package" /\ resp'.status = 404)
          => (/\ \A k \in key_packages : k.user_email # resp'.email
              /\ key_packages' = key_packages)
       /\ (resp'.op = "fetch_key_package" /\ (\A k \in key_packages : k.user_email # resp'.email))
          => resp'.status = 404
       /\ \A k \in key_packages' \ key_packages :
             /\ \A j \in key_packages : j.key_package_id < k.key_package_id
             /\ \A i \in KeyPackageIds : returned[i] > 0 => i < k.key_package_id]_vars

C19_Witness ==
    /\ resp.op = "fetch_key_package"
    /\ resp.status = 200
    /\ resp.key_package_id = 2
    /\ returned[1] = 1
    /\ returned[2] = 1
    /\ key_packages = {}

\* C20: get_folder answers a registered user 404 exactly when the user is not
\* a member of the folder at the time of the request; a member gets 200 with
\* the stored metadata and its e_tag, or 500 when the metadata cannot be read.
C20_GetFolderNotFoundIffNotMember ==
    [][resp'.op = "get_folder"
       => LET member == <<resp'.folder_id, resp'.user>> \in folders_users
              location == get_location_for_metadata_file(resp'.folder_id)
          IN  /\ resp'.status \in {200, 404, 500}
              /\ resp'.status = 404 <=> ~member
              /\ resp'.status = 200
                    => (/\ Exists(store, location)
                        /\ resp'.e_tag = store[location].e_tag
                        /\ resp'.payload = store[location].bytes)
              /\ UNCHANGED <<dbVars, mqVars, storeVars>>]_vars

C20_Witness ==
    /\ resp.op = "get_folder"
    /\ resp.status = 404
    /\ resp.folder_id \in folders
    /\ <<resp.folder_id, resp.user>> \notin folders_users
    /\ \E u \in users : <<resp.folder_id, u>> \in folders_users

\* C21: an upload_file whose metadata put fails its precondition (Update with
\* an e_tag that is not the metadata object's current one, Create while the
\* metadata object exists) is answered 409, every 409 upload_file comes from
\* such a failure, and a 409 leaves every object of the store as it was.
C21_ConflictWritesNoObject ==
    [][resp'.op = "upload_file" /\ resp'.status \in {201, 409, 500}
       => LET location == get_location_for_metadata_file(resp'.folder_id)
              stale == /\ resp'.parent # NoETag
                       /\ ~(Exists(store, location) /\ store[location].e_tag = resp'.parent)
              exists == /\ resp'.parent = NoETag
                        /\ resp'.parent_version = NoETag
                        /\ Exists(store, location)
          IN  /\ (stale \/ exists) <=> resp'.status = 409
              /\ resp'.status = 409 => store' = store]_vars

C21_Witness ==
    /\ resp.op = "upload_file"
    /\ resp.status = 409
    /\ Exists(store, get_location_for_file(resp.folder_id, resp.file_id))
    /\ store[get_location_for_file(resp.folder_id, resp.file_id)].bytes # resp.file
    /\ store[get_location_for_metadata_file(resp.folder_id)].bytes # resp.metadata

\* C22: an upload_file that ends with an error leaves the folder's metadata
\* object at the version it had, and a 201 upload_file has stored both the
\* metadata and the file of the request.
C22_UploadAllOrNothing ==
    [][resp'.op = "upload_file" /\ resp'.status \in {201, 409, 500}
       => LET metadata_location == get_location_for_metadata_file(resp'.folder_id)
              file_location == get_location_for_file(resp'.folder_id, resp'.file_id)
          IN  /\ resp'.status # 201
                    => /\ Exists(store', metadata_location) = Exists(store, metadata_location)
                       /\ Exists(store, metadata_location)
                             => store'[metadata_location] = store[metadata_location]
              /\ resp'.status = 201
                    => /\ Exists(store', metadata_location)
                       /\ store'[metadata_location].bytes = resp'.metadata
                       /\ Exists(store', file_location)
                       /\ store'[file_location].bytes = resp'.file]_vars

\* C23: get_file by a member answers 200 for a file_id that had a 201 upload,
\* with exactly the bytes of the most recent 201 upload to that file_id, and
\* answers 200 for no other file.
C23_GetFileReturnsLastUpload ==
    [][(resp'.op = "get_file" /\ resp'.file_id # MetadataFileName
                              /\ resp'.status \notin {401, 500})
       => LET location == get_location_for_file(resp'.folder_id, resp'.file_id)
          IN  /\ resp'.status = 200 <=> Exists(uploaded, location)
              /\ resp'.status = 200 => resp'.file = uploaded[location].bytes]_vars

C23_Witness ==
    /\ resp.op = "get_file"
    /\ resp.status = 200
    /\ Exists(uploaded, get_location_for_file(resp.folder_id, resp.file_id))
    /\ resp.file = uploaded[get_location_for_file(resp.folder_id, resp.file_id)].bytes
    /\ \E p \in Procs : /\ upload[p].pc = "write"
                        /\ upload[p].op = "upload_file"
                        /\ upload[p].file_id = resp.file_id

\* C24: a 200 get_file carries the e_tag that the most recent 201 upload_file of
\* that file_id answered.
C24_GetFileReturnsWriteToken ==
    [][(resp'.op = "get_file" /\ resp'.status = 200
           /\ Exists(uploaded, get_location_for_file(resp'.folder_id, resp'.file_id)))
       => resp'.e_tag
             = uploaded[get_location_for_file(resp'.folder_id, resp'.file_id)].e_tag]_vars

\* C25: a get_metadata by a member right after a 201 create_folder, upload_file
\* or post_metadata of the folder answers the metadata bytes of that write and
\* the e_tag of its response; every 200 get_metadata answers the stored
\* metadata and its current e_tag; and a write presenting the current e_tag as
\* parent is never answered 409: its metadata becomes the stored metadata, and
\* it is answered 201 unless its file put fails.
C25_MetadataRoundTrip ==
    [][/\ (/\ resp.op \in {"create_folder", "upload_file", "post_metadata"}
           /\ resp.status = 201
           /\ resp'.op = "get_metadata"
           /\ resp'.folder_id = resp.folder_id
           /\ resp'.status \notin {401, 500})
          => (/\ resp'.status = 200
              /\ resp'.file = resp.metadata
              /\ resp'.e_tag = resp.e_tag)
       /\ (resp'.op = "get_metadata" /\ resp'.status = 200)
          => (/\ Exists(store, get_location_for_metadata_file(resp'.folder_id))
              /\ resp'.file = store[get_location_for_metadata_file(resp'.folder_id)].bytes
              /\ resp'.e_tag = store[get_location_for_metadata_file(resp'.folder_id)].e_tag)
       /\ (/\ resp'.op \in {"upload_file", "post_metadata"}
           /\ resp'.status \in {201, 409, 500}
           /\ resp'.parent # NoETag
           /\ Exists(store, get_location_for_metadata_file(resp'.folder_id))
           /\ store[get_location_for_metadata_file(resp'.folder_id)].e_tag = resp'.parent)
          => (/\ resp'.status \in {201, 500}
              /\ resp'.status = 500 => resp'.op = "upload_file"
              /\ resp'.status = 201 => resp'.e_tag # resp'.parent
              /\ store'[get_location_for_metadata_file(resp'.folder_id)].bytes
                    = resp'.metadata)]_vars

C25_Witness ==
    /\ resp.op = "get_metadata"
    /\ resp.status = 200
    /\ resp.file \in Metadatas
    /\ resp.e_tag = store[get_location_for_metadata_file(resp.folder_id)].e_tag
    /\ <<resp.folder_id, resp.e_tag>> \notin accepted
    /\ \E t \in ETags : t # resp.e_tag /\ t # 1 /\ <<resp.folder_id, t>> \in accepted

\* C26: an upload_file without parent e_tag and parent version is answered 201
\* only if the folder had no metadata object, and, sent by a member of the
\* folder, it is answered 409.
C26_UploadWithoutParentConflicts ==
    [][(/\ resp'.op = "upload_file"
        /\ resp'.status \in {201, 409, 500}
        /\ resp'.parent = NoETag
        /\ resp'.parent_version = NoETag)
       => (/\ resp'.status = 201
                 => ~Exists(store, get_location_for_metadata_file(resp'.folder_id))
           /\ resp'.status = 409)]_vars

\* C27: upload_file with file_id "metadata" is answered 400 and leaves the
\* object store as it was.
C27_ReservedFileIdRejected ==
    [][(resp'.op = "upload_file" /\ resp'.file_id = MetadataFileName)
       => (resp'.status = 400 /\ UNCHANGED <<store, next_e_tag, upload>>)]_vars

C27_Witness ==
    /\ resp.op = "upload_file"
    /\ resp.file_id = MetadataFileName
    /\ resp.status = 400
    /\ Exists(store, get_location_for_metadata_file(resp.folder_id))
    /\ <<resp.folder_id, resp.user>> \in folders_users

\* C30: every folder of the folder table has a metadata object in the object
\* store (create_folder is one step, so no request is in progress in a state).
C30_FolderHasMetadata ==
    \A folder_id \in folders : Exists(store, get_location_for_metadata_file(folder_id))

\* C28: a request is handled as a user only when exactly one registered user
\* has an email among the certificate's emails, and then as that user; with
\* no match or several matches it is answered 401 and changes no state.
C28_AuthenticatedIffOneMatch ==
    [][\A emails \in Certificates :
          CertRequest(emails)
             => IF Cardinality(emails \cap users) = 1
                THEN /\ resp'.status # 401
                     /\ resp'.user \in emails \cap users
                ELSE /\ resp'.status = 401
                     /\ resp'.certificate = emails
                     /\ UNCHANGED <<dbVars, mqVars, kpVars, storeVars, fifoVars>>]_vars

C28_Witness ==
    /\ resp.status = 401
    /\ resp.op = "create_folder"
    /\ Cardinality(resp.certificate \cap users) > 1

\* C29: create_user registers the email only if it is among the certificate's
\* emails (otherwise 400, registry unchanged); for an email already registered
\* it answers 409 and the registry is unchanged; otherwise it answers 201 and
\* the registry gains exactly that email.
C29_CreateUser ==
    [][resp'.op = "create_user"
       => (/\ resp'.email \notin resp'.certificate
                 => (resp'.status = 400 /\ users' = users)
           /\ (resp'.email \in resp'.certificate /\ resp'.email \in users)
                 => (resp'.status = 409 /\ users' = users)
           /\ (resp'.email \in resp'.certificate /\ resp'.email \notin users)
                 => (resp'.status = 201 /\ users' = users \cup {resp'.email})
           /\ UNCHANGED <<folders, folders_users, mqVars, kpVars, storeVars>>)]_vars

C29_Witness ==
    /\ resp.op = "create_user"
    /\ resp.status = 409
    /\ resp.email \in resp.certificate
    /\ resp.email \in users

C33_RemoveSelfFrame ==
    [][resp'.op = "remove_self_from_folder"
       => (/\ resp'.status = 200
           /\ folders_users' = folders_users \ {<<resp'.folder_id, resp'.user>>}
           /\ pending_group_messages' =
                  {m \in pending_group_messages :
                      ~(m.folder_id = resp'.folder_id /\ m.user_email = resp'.user)}
           /\ \A m \in pending_group_messages :
                  (m.creator = resp'.user /\ m.user_email # resp'.user)
                      => m \in pending_group_messages')]_vars

C33_Witness ==
    /\ resp.op = "remove_self_from_folder"
    /\ resp.status = 200
    /\ <<resp.folder_id, resp.user>> \notin folders_users
    /\ Queue(pending_group_messages, resp.folder_id, resp.user) = {}
    /\ \E m \in pending_group_messages :
          /\ m.folder_id = resp.folder_id
          /\ m.creator = resp.user
          /\ m.user_email # resp.user
          /\ <<resp.folder_id, m.user_email>> \in folders_users

\* C34: get_file, upload_file, get_metadata and post_metadata called by a
\* registered user who is not a member of the folder answer 404 and change
\* nothing in the object store.
C34_NonMemberFileOpNotFound ==
    [][(/\ resp'.op \in {"get_file", "upload_file", "get_metadata", "post_metadata"}
        /\ resp'.user \in users
        /\ <<resp'.folder_id, resp'.user>> \notin folders_users
        /\ ~(resp'.op = "upload_file" /\ resp'.file_id = MetadataFileName))
       => (/\ resp'.status = 404
           /\ store' = store)]_vars

\* C39: ack_message never removes a pending message that has no application
\* message attached yet (state Proposed).
C39_AckOnlyPatched ==
    [][resp'.op = "ack_message"
       => \A m \in pending_group_messages \ pending_group_messages' :
              \E x \in application_messages : x.message_id = m.message_id]_vars

\* C38: after a successful publish_application_msg a notification carrying the
\* folder_id has been sent to the recipient of every pending message that got
\* its application message in the call.
C38_PatchedRecipientsNotified ==
    [][(resp'.op = "publish_application_msg" /\ resp'.status = 201)
       => \A x \in application_messages' \ application_messages :
              \A m \in pending_group_messages :
                  m.message_id = x.message_id
                      => Notification(resp'.folder_id, m.user_email) \in sse_sent']_vars

\* ------------------------------------------- publish_proposal in flight
\* publish_proposal as concurrent requests with database errors: the state
\* after every user of Users registered, "a" created folder 1 and shared it
\* with "b", or with "b" and "c".
InitPublish ==
    /\ users = Users
    /\ folders = {1}
    /\ \E members \in {{"a", "b"}, Users} :
          folders_users = {<<1, u>> : u \in members}
    /\ next_folder_id = 2
    /\ pending_group_messages = {}
    /\ next_message_id = 1
    /\ application_messages = {}
    /\ publish = [p \in Procs |-> NoPublish]
    /\ key_packages = {}
    /\ next_key_package_id = 1
    /\ store = init_metadata(<<>>, 1, 1, "m0").store
    /\ next_e_tag = 2
    /\ accepted = {<<1, NoETag>>}
    /\ uploaded = <<>>
    /\ upload = [p \in Procs |-> NoUpload]
    /\ consume = [p \in Procs |-> NoConsume]
    /\ returned = [k \in KeyPackageIds |-> 0]
    /\ last_read = [f \in FolderIds |-> [u \in Users |-> 0]]
    /\ acked = [f \in FolderIds |-> [u \in Users |-> FALSE]]
    /\ sse_sent = {}
    /\ resp = NoResp

TryPublishProposalBegin ==
    \E p \in Procs, email \in users, folder_id \in FolderIds, proposal \in Payloads :
        try_publish_proposal_begin(p, email, folder_id, proposal)

TryPublishProposalCommit ==
    \E p \in Procs, fail_at \in 0..(Cardinality(Users) - 1), tx_alive \in BOOLEAN :
        try_publish_proposal_commit(p, fail_at, tx_alive)

TryPublishProposalRespond ==
    \E p \in Procs : try_publish_proposal_respond(p)

NextPublish ==
    \/ TryPublishProposalBegin
    \/ TryPublishProposalCommit
    \/ TryPublishProposalRespond

SpecPublish == InitPublish /\ [][NextPublish]_vars

\* C35: of two publish_proposal calls in flight at the same time, made by two
\* members of the same folder, at most one commits its batch: never have both
\* inserted and committed (the second to commit is rejected with 409 instead).
C35_AtMostOneSucceeds ==
    ~(/\ \A p \in Procs : publish[p].pc = "respond" /\ publish[p].ok
      /\ publish["t1"].sender # publish["t2"].sender
      /\ publish["t1"].folder_id = publish["t2"].folder_id
      /\ \A p \in Procs : <<publish[p].folder_id, publish[p].sender>> \in folders_users)

\* C36: a database error inside publish_proposal after some INSERTs of the
\* batch leaves no pending message of the call behind, is answered 500 and
\* sends no notification.
C36_FailedPublishRollsBack ==
    [][/\ \A p \in Procs :
             (/\ publish[p].pc = "insert"
              /\ publish'[p].pc = "respond"
              /\ ~publish'[p].ok)
             => pending_group_messages' = pending_group_messages
       /\ \A p \in Procs :
             (/\ publish[p].pc = "respond"
              /\ publish'[p].pc = "idle"
              /\ ~publish[p].ok)
             => (resp'.status = 500 /\ sse_sent' = {})]_vars

\* C37: when publish_proposal answers 200 a notification carrying the folder_id
\* has been sent to the recipient of every message of the batch, and the batch
\* had been committed before any notification was sent: the steps up to and
\* including the commit send none.
C37_RecipientsNotifiedAfterCommit ==
    [][/\ (resp'.op = "publish_proposal" /\ resp'.status = 200)
          => /\ \A i \in Range(resp'.message_ids) : i < next_message_id
             /\ \A e \in Range(list_users_by_folder(folders_users, resp'.folder_id)) :
                    e # resp'.user => Notification(resp'.folder_id, e) \in sse_sent'
       /\ sse_sent' # {}
          => (resp'.op = "publish_proposal" /\ resp'.status \in {200, 409})
       /\ \A p \in Procs :
             (publish[p].pc = "insert" /\ publish'[p].pc = "respond") => sse_sent' = {}]_vars

C37_Witness ==
    /\ resp.op = "publish_proposal"
    /\ resp.status = 200
    /\ Len(resp.message_ids) = 2
    /\ Cardinality(sse_sent) = 3
    /\ \E m \in pending_group_messages : m.message_id \in Range(resp.message_ids)

\* ------------------------------------------- subscribers of the notifications
\* The group of three members with key packages and subscribers of the event
\* stream: proposals notify every member with the folder_id, a consumed key
\* package notifies its owner without folder_id.
Sse ==
    \E emails \in Certificates, folder_id \in 0..MaxFolderId, receiver \in Users, lagged \in BOOLEAN :
        sse(emails, Notification(folder_id, receiver), lagged)

NextSse ==
    \/ TryPublishProposal
    \/ PublishKeyPackage
    \/ ConsumeSelectSeq
    \/ ConsumeDeleteSeq
    \/ Sse

SpecSse == InitGroup /\ [][NextSse]_vars

\* C40: an event yielded to a subscriber comes from a notification of the
\* channel whose receiver is the subscriber's authenticated user, and its data
\* is that notification's folder_id, or -1 when it has none.
C40_SubscriberGetsOwnEvents ==
    [][(resp'.op = "sse" /\ resp'.status = 200)
       => (/\ get_known_user(resp'.certificate).ok
           /\ resp'.user = get_known_user(resp'.certificate).user_email
           /\ \E n \in sse_sent :
                 /\ n.receiver = resp'.user
                 /\ resp'.payload = IF n.folder_id = 0 THEN "-1"
                                    ELSE ToString(n.folder_id))]_vars

C40_Witness ==
    /\ resp.op = "sse"
    /\ resp.status = 200
    /\ resp.payload = "1"
    /\ \E n \in sse_sent : n.receiver # resp.user
    /\ \E n \in sse_sent : n.receiver = resp.user

\* ------------------------------------------- a rejected sender drains its queue
\* Member "a" of folder 1 after its publish_proposal was answered 409: "b"
\* published one or two proposals, which are in a's queue, some of them with
\* their application message already.  From there "a" repeats get_first and
\* ack, publishing again once get_first answers 404, while the creator of the
\* pending messages attaches the missing application messages; nothing else
\* is enqueued for "a".
InitRetry ==
    /\ users = Users
    /\ folders = {1}
    /\ folders_users = {<<1, "a">>, <<1, "b">>}
    /\ next_folder_id = 2
    /\ \E k \in 1..(MaxMessageId - 1), payload \in [1..(MaxMessageId - 1) -> Payloads] :
          /\ pending_group_messages =
                 {[message_id |-> i, folder_id |-> 1, user_email |-> "a",
                   payload |-> payload[i], creator |-> "b"] : i \in 1..k}
          /\ next_message_id = k + 1
          /\ \E patched \in SUBSET (1..k), application \in [1..(MaxMessageId - 1) -> Payloads] :
                application_messages =
                    {[message_id |-> i, payload |-> application[i]] : i \in patched}
    /\ publish = [p \in Procs |-> NoPublish]
    /\ key_packages = {}
    /\ next_key_package_id = 1
    /\ store = init_metadata(<<>>, 1, 1, "m0").store
    /\ next_e_tag = 2
    /\ accepted = {<<1, NoETag>>}
    /\ uploaded = <<>>
    /\ upload = [p \in Procs |-> NoUpload]
    /\ consume = [p \in Procs |-> NoConsume]
    /\ returned = [k \in KeyPackageIds |-> 0]
    /\ last_read = [f \in FolderIds |-> [u \in Users |-> 0]]
    /\ acked = [f \in FolderIds |-> [u \in Users |-> FALSE]]
    /\ sse_sent = {Notification(1, "a")}
    /\ \E proposal \in Payloads :
          resp = [Resp("publish_proposal", "a", 1, 409) EXCEPT !.payload = proposal]

\* The client's turn is read off the last response: after 200 of get_first it
\* acks the message it got, after 404 it publishes, after its 200 it is done,
\* and in every other case it polls get_first.
RetryGetFirst ==
    /\ ~(resp.op = "get_pending_proposal" /\ resp.user = "a" /\ resp.status \in {200, 404})
    /\ ~(resp.op = "publish_proposal" /\ resp.user = "a" /\ resp.status = 200)
    /\ get_pending_proposal("a", 1)
    /\ UNCHANGED fifoVars

RetryAck ==
    /\ resp.op = "get_pending_proposal" /\ resp.user = "a" /\ resp.status = 200
    /\ ack_message("a", 1, resp.message_id)
    /\ UNCHANGED fifoVars

RetryPublish ==
    /\ resp.op = "get_pending_proposal" /\ resp.user = "a" /\ resp.status = 404
    /\ \E proposal \in Payloads : try_publish_proposal("a", 1, proposal)

RetryPatch ==
    \E m \in Queue(pending_group_messages, 1, "a"), payload \in Payloads :
        /\ \A x \in application_messages : x.message_id # m.message_id
        /\ try_publish_application_msg(m.creator, 1, {m.message_id}, payload)

NextRetry ==
    \/ RetryGetFirst
    \/ RetryAck
    \/ RetryPublish
    \/ RetryPatch

SpecRetry ==
    /\ InitRetry
    /\ [][NextRetry]_vars
    /\ WF_vars(RetryGetFirst)
    /\ WF_vars(RetryAck)
    /\ WF_vars(RetryPublish)
    /\ WF_vars(RetryPatch)

\* C32: a member whose publish_proposal was answered 409 and who then repeats
\* get_first and ack until its queue is empty, while every message of its
\* queue gets its application message and nothing new is enqueued for it,
\* eventually has its publish_proposal answered 200.
C32_RetrySucceeds ==
    (resp.op = "publish_proposal" /\ resp.user = "a" /\ resp.status = 409)
        ~> (resp.op = "publish_proposal" /\ resp.user = "a" /\ resp.status = 200)

C32_Witness ==
    /\ resp.op = "publish_proposal"
    /\ resp.user = "a"
    /\ resp.status = 200
    /\ resp.message_ids = <<MaxMessageId>>
    /\ Queue(pending_group_messages, 1, "a") = {}
    /\ application_messages = {}

=============================================================================
